---- MODULE Spec2Model ----
(***************************************************************************)
(* The sparse/dense ingestion and search workflows of the Qdrant scripts:  *)
(*   Qdrant/psadt_fastembed_cloud_fixed.py  ("fixed")                      *)
(*   Qdrant/psadt_fastembed_cloud.py        ("cloud")                      *)
(*   Qdrant/use_existing_collection.py      ("existing")                   *)
(*   Qdrant/scripts/generate_embeddings.py  ("generate")                   *)
(* Every script is single-threaded and blocking, so one call of a script   *)
(* function is one action.  The vector store persists between calls; the   *)
(* requests a call sends are logged in reqs, in the order they are sent.   *)
(***************************************************************************)
EXTENDS Integers, Sequences, FiniteSets, TLC

VARIABLES
    store,  \* the vector store: collection name -> configuration and points
    call,   \* the call being reported: script, function and arguments
    reqs,   \* the requests this call sent to the store, in order
    ret,    \* what the call handed back to its caller
    written \* an ingestion has run in this behaviour

vars == <<store, call, reqs, ret, written>>

----------------------------------------------------------------------------
(* Bounds of the model *)

MaxRecords == 2     \* records of one ingestion call; stored points and search limits

MaxFields == 3      \* fields of one item given to create_text_representation

----------------------------------------------------------------------------
(* Program constants *)

COMMANDS_COLLECTION == "psadt_commands"
vector_size == 384
placeholder_size == 1
dummy_vector_len == 1
SPARSE_FIELD == "text"

Alternative(collection_name) == collection_name \o "_new"

Names == {COMMANDS_COLLECTION, Alternative(COMMANDS_COLLECTION)}

----------------------------------------------------------------------------
(* The store's collections *)

Absent == [exists |-> FALSE, size |-> 0, distance |-> "", sparse |-> <<>>, points |-> {}]

DenseConfig == [exists |-> TRUE, size |-> vector_size, distance |-> "COSINE",
                sparse |-> <<>>, points |-> {}]

SparseConfig(fields) == [exists |-> TRUE, size |-> placeholder_size, distance |-> "DOT",
                         sparse |-> fields, points |-> {}]

Config(c) == [c EXCEPT !.points = {}]

Range(s) == {s[i] : i \in DOMAIN s}

----------------------------------------------------------------------------
(* Embeddings.  A vector is described by what a store can tell about it:   *)
(* the length of its dense part (0: None), the sparse field it names       *)
(* ("": none), the embedder entry point that produced it and the text.     *)

NoVec == [dense |-> 0, field |-> "", via |-> "", text |-> <<>>]

DenseEmbed(text) == [dense |-> vector_size, field |-> "", via |-> "dense.embed", text |-> text]

SparseEmbed(text) == [dense |-> 0, field |-> "", via |-> "sparse.embed", text |-> text]

SparseQueryEmbed(text) == [dense |-> 0, field |-> "", via |-> "sparse.query_embed", text |-> text]

\* the store accepts a vector iff its dense part (if any) has the configured
\* length and its sparse part (if any) names a configured sparse field
Compatible(vec, c) ==
    /\ c.exists
    /\ vec.dense # 0 \/ vec.field # ""
    /\ vec.dense # 0 => vec.dense = c.size
    /\ vec.field # "" => vec.field \in Range(c.sparse)

----------------------------------------------------------------------------
(* Faults of one call: the k-th request of the call fails in the network   *)
(* (net = k), the embedding of the i-th record fails (emb = i), a model    *)
(* cannot be loaded (model = "sparse" or "dense").  At most one per call.  *)

NoFault == [net |-> 0, emb |-> 0, model |-> ""]

\* the embedding model a mode loads: Qdrant/bm25 or BAAI/bge-small-en-v1.5
Model(use_sparse) == IF use_sparse THEN "sparse" ELSE "dense"

----------------------------------------------------------------------------
(* The store client.  ctx = [store, reqs]; every operation appends the     *)
(* request to reqs and returns the new ctx together with err ("": none).   *)

Req(op, coll, points, vec, limit, create, c, err) ==
    [op |-> op, coll |-> coll, points |-> points, vec |-> vec, limit |-> limit,
     create |-> create, cfg |-> Config(c), err |-> err]

Failure(ctx, f, notfound, rejected) ==
    IF f.net = Len(ctx.reqs) + 1 THEN "StoreUnavailable"
    ELSE IF notfound THEN "CollectionNotFound"
    ELSE IF rejected THEN "Rejected"
    ELSE ""

Log(ctx, r) == [ctx EXCEPT !.reqs = Append(@, r)]

get_collection(ctx, name, f) ==
    LET c == ctx.store[name]
        err == Failure(ctx, f, ~c.exists, FALSE)
    IN  [ctx |-> Log(ctx, Req("get_collection", name, <<>>, NoVec, 0, Absent, c, err)),
         err |-> err, info |-> c]

search(ctx, name, vec, limit, ranking, f) ==
    LET c == ctx.store[name]
        err == Failure(ctx, f, ~c.exists, ~Compatible(vec, c))
        ids == {p.id : p \in c.points}
        ranked == SelectSeq(ranking, LAMBDA i : i \in ids)
        n == IF Len(ranked) < limit THEN Len(ranked) ELSE limit
        hits == [k \in 1..n |-> [id |-> ranked[k], score |-> Len(ranking) + 1 - k]]
    IN  [ctx |-> Log(ctx, Req("search", name, <<>>, vec, limit, Absent, c, err)),
         err |-> err, hits |-> IF err = "" THEN hits ELSE <<>>]

create_collection(ctx, name, config, f) ==
    LET c == ctx.store[name]
        err == Failure(ctx, f, FALSE, c.exists)
        logged == Log(ctx, Req("create_collection", name, <<>>, NoVec, 0, config, c, err))
    IN  [ctx |-> IF err = "" THEN [logged EXCEPT !.store[name] = config] ELSE logged,
         err |-> err]

delete_collection(ctx, name, f) ==
    LET c == ctx.store[name]
        err == Failure(ctx, f, FALSE, FALSE)
        logged == Log(ctx, Req("delete_collection", name, <<>>, NoVec, 0, Absent, c, err))
    IN  [ctx |-> IF err = "" THEN [logged EXCEPT !.store[name] = Absent] ELSE logged,
         err |-> err]

\* points of one request overwrite stored points of the same id, later ones last
RECURSIVE Put(_, _)
Put(stored, points) ==
    IF points = <<>> THEN stored
    ELSE Put({p \in stored : p.id # Head(points).id} \cup {Head(points)}, Tail(points))

upsert(ctx, name, points, f) ==
    LET c == ctx.store[name]
        err == Failure(ctx, f, ~c.exists,
                       \E k \in DOMAIN points : ~Compatible(points[k].vec, c))
        logged == Log(ctx, Req("upsert", name, points, NoVec, 0, Absent, c, err))
    IN  [ctx |-> IF err = ""
                 THEN [logged EXCEPT !.store[name].points = Put(@, points)]
                 ELSE logged,
         err |-> err]

----------------------------------------------------------------------------
(* What a call hands back: a list (search), None (ingestion), a raised     *)
(* exception, or the exit of the process.                                  *)

ReturnList(results) == [kind |-> "list", results |-> results, value |-> FALSE, err |-> ""]
ReturnBool(b) == [kind |-> "bool", results |-> <<>>, value |-> b, err |-> ""]
ReturnNone == [kind |-> "None", results |-> <<>>, value |-> FALSE, err |-> ""]
Raise(err) == [kind |-> "raise", results |-> <<>>, value |-> FALSE, err |-> err]
Exit(code) == [kind |-> "exit", results |-> <<>>, value |-> FALSE, err |-> code]

Out(ctx, r) == [store |-> ctx.store, reqs |-> ctx.reqs, ret |-> r]

\* the results, had they been returned last hit first
ResultsReversed(hits) ==
    [k \in DOMAIN hits |-> [payload |-> hits[Len(hits) + 1 - k].id,
                            score |-> hits[Len(hits) + 1 - k].score]]

\* result.payload with result.score attached, one entry per hit, in order
Results(hits) == [k \in DOMAIN hits |-> [payload |-> hits[k].id, score |-> hits[k].score]]

----------------------------------------------------------------------------
(* psadt_fastembed_cloud_fixed.py: the capability probe *)

\* the probe, had it read the configuration a second time
supports_sparse_vectors_twice(ctx, collection_name, f) ==
    LET g == get_collection(get_collection(ctx, collection_name, f).ctx, collection_name, f)
    IN  [ctx |-> g.ctx,
         value |-> IF g.err = "" THEN g.info.sparse # <<>> ELSE FALSE]

supports_sparse_vectors(ctx, collection_name, f) ==
    LET g == get_collection(ctx, collection_name, f)
    IN  [ctx |-> g.ctx,
         value |-> IF g.err = "" THEN g.info.sparse # <<>> ELSE FALSE]

----------------------------------------------------------------------------
(* psadt_fastembed_cloud_fixed.py: search_psadt_commands *)

QueryText(query) == <<"query", query>>

Selected(ctx, returned, collection_name, use_sparse, query_embedding) ==
    [ctx |-> ctx, returned |-> returned, collection_name |-> collection_name,
     use_sparse |-> use_sparse, query_embedding |-> query_embedding]

\* the warning branch, had it prepared the alternative collection as the
\* ingestion does
fixed_fallback_creating(ctx, collection_name, query, query_embedding, f) ==
    LET cr == create_collection(ctx, Alternative(collection_name),
                                SparseConfig(<<SPARSE_FIELD>>), f)
    IN  IF f.model = "dense"
        THEN Selected(cr.ctx, TRUE, collection_name, TRUE, query_embedding)
        ELSE Selected(cr.ctx, FALSE, collection_name, FALSE, DenseEmbed(QueryText(query)))

\* the warning branch: fall back to dense search on the primary collection
fixed_fallback(ctx, collection_name, query, query_embedding, f) ==
    IF f.model = "dense"
    THEN Selected(ctx, TRUE, collection_name, TRUE, query_embedding)
    ELSE Selected(ctx, FALSE, collection_name, FALSE, DenseEmbed(QueryText(query)))

\* the selection, had it fallen back without looking at the alternative
fixed_select_collection_primary_only(ctx, query, use_sparse, query_embedding, f) ==
    LET p1 == supports_sparse_vectors(ctx, COMMANDS_COLLECTION, f)
    IN  IF ~use_sparse
        THEN Selected(ctx, FALSE, COMMANDS_COLLECTION, FALSE, query_embedding)
        ELSE IF p1.value
        THEN Selected(p1.ctx, FALSE, COMMANDS_COLLECTION, TRUE, query_embedding)
        ELSE fixed_fallback(p1.ctx, COMMANDS_COLLECTION, query, query_embedding, f)

\* the selection, had it trusted the mode it was called with instead of
\* reading the collections' configuration
fixed_select_collection_remembering(ctx, query, use_sparse, query_embedding, f) ==
    Selected(ctx, FALSE, COMMANDS_COLLECTION, use_sparse, query_embedding)

\* "Check if collection exists and supports sparse vectors"
fixed_select_collection(ctx, query, use_sparse, query_embedding, f) ==
    LET collection_name == COMMANDS_COLLECTION
        p1 == supports_sparse_vectors(ctx, collection_name, f)
        alternative == Alternative(collection_name)
        p2 == supports_sparse_vectors(p1.ctx, alternative, f)
    IN  IF ~use_sparse
        THEN Selected(ctx, FALSE, collection_name, FALSE, query_embedding)
        ELSE IF p1.value
        THEN Selected(p1.ctx, FALSE, collection_name, TRUE, query_embedding)
        ELSE IF p2.value
        THEN Selected(p2.ctx, FALSE, alternative, TRUE, query_embedding)
        ELSE fixed_fallback(p2.ctx, collection_name, query, query_embedding, f)

\* the search, had it sent a failed request once more
fixed_perform_search_retrying(ctx, collection_name, use_sparse, query_embedding, limit, ranking, f) ==
    LET vec == IF use_sparse
               THEN [query_embedding EXCEPT !.dense = dummy_vector_len, !.field = SPARSE_FIELD]
               ELSE query_embedding
        s1 == search(ctx, collection_name, vec, limit, ranking, f)
        s2 == search(s1.ctx, collection_name, vec, limit, ranking, f)
        s == IF s1.err # "" THEN s2 ELSE s1
    IN  IF s.err # ""
        THEN Out(s.ctx, ReturnList(<<>>))
        ELSE Out(s.ctx, ReturnList([k \in DOMAIN s.hits |->
                                       [payload |-> s.hits[k].id, score |-> s.hits[k].score]]))

\* "Perform search"
fixed_perform_search(ctx, collection_name, use_sparse, query_embedding, limit, ranking, f) ==
    LET vec == IF use_sparse
               THEN [query_embedding EXCEPT !.dense = dummy_vector_len, !.field = SPARSE_FIELD]
               ELSE query_embedding
        s == search(ctx, collection_name, vec, limit, ranking, f)
    IN  IF s.err # ""
        THEN Out(s.ctx, ReturnList(<<>>))
        ELSE Out(s.ctx, ReturnList(Results(s.hits)))

fixed_search_psadt_commands(st, query, use_sparse, limit, ranking, f) ==
    LET ctx == [store |-> st, reqs |-> <<>>]
        query_embedding == IF use_sparse THEN SparseQueryEmbed(QueryText(query))
                           ELSE DenseEmbed(QueryText(query))
        sel == fixed_select_collection(ctx, query, use_sparse, query_embedding, f)
    IN  IF f.model = Model(use_sparse)
        THEN Out(ctx, Raise("ModelUnavailable"))
        ELSE IF sel.returned
        THEN Out(sel.ctx, ReturnList(<<>>))
        ELSE fixed_perform_search(sel.ctx, sel.collection_name, sel.use_sparse,
                                  sel.query_embedding, limit, ranking, f)

----------------------------------------------------------------------------
(* psadt_fastembed_cloud.py: search_psadt_commands *)

cloud_search_psadt_commands(st, query, use_sparse, limit, ranking, f) ==
    LET ctx == [store |-> st, reqs |-> <<>>]
        query_embedding == IF use_sparse THEN SparseQueryEmbed(QueryText(query))
                           ELSE DenseEmbed(QueryText(query))
        vec == IF use_sparse THEN [query_embedding EXCEPT !.field = SPARSE_FIELD]
               ELSE query_embedding
        s == search(ctx, COMMANDS_COLLECTION, vec, limit, ranking, f)
    IN  IF f.model = Model(use_sparse)
        THEN Out(ctx, Raise("ModelUnavailable"))
        ELSE IF s.err # ""
        THEN Out(s.ctx, Raise(s.err))
        ELSE Out(s.ctx, ReturnList(Results(s.hits)))

----------------------------------------------------------------------------
(* use_existing_collection.py: search_commands *)

\* the field name, had the last key of the mapping been taken
last_sparse_field(collection_info) ==
    IF collection_info.sparse # <<>>
    THEN collection_info.sparse[Len(collection_info.sparse)]
    ELSE ""

\* "Get the first sparse vector field name": next(iter(sparse_vectors.keys()))
first_sparse_field(collection_info) ==
    IF collection_info.sparse # <<>> THEN Head(collection_info.sparse) ELSE ""

search_commands(st, query, collection_name, limit, ranking, f) ==
    LET ctx == [store |-> st, reqs |-> <<>>]
        g == get_collection(ctx, collection_name, f)
        sparse_vector_field == first_sparse_field(g.info)
        query_embedding == SparseQueryEmbed(QueryText(query))
        vec == [query_embedding EXCEPT !.field = sparse_vector_field]
        s == search(g.ctx, collection_name, vec, limit, ranking, f)
    IN  IF f.model = "sparse"
        THEN Out(ctx, Raise("ModelUnavailable"))
        ELSE IF g.err # ""
        THEN Out(g.ctx, Raise(g.err))
        ELSE IF sparse_vector_field = ""
        THEN Out(g.ctx, ReturnList(<<>>))
        ELSE IF s.err # ""
        THEN Out(s.ctx, ReturnList(<<>>))
        ELSE Out(s.ctx, ReturnList(Results(s.hits)))

----------------------------------------------------------------------------
(* Records.  A command is described by its 'id' (NoId: no such key) and by *)
(* whether it has the keys 'name', 'synopsis' and 'syntax' (ok).           *)

NoId == -1

Text(command) == <<"record", command.id>>

\* the sparse point, had the record been embedded as a query
SparsePointByQuery(id, text, dense, field) ==
    [id |-> id, vec |-> [SparseQueryEmbed(text) EXCEPT !.dense = dense, !.field = field]]

SparsePoint(id, text, dense, field) ==
    [id |-> id, vec |-> [SparseEmbed(text) EXCEPT !.dense = dense, !.field = field]]

DensePoint(id, text) == [id |-> id, vec |-> DenseEmbed(text)]

----------------------------------------------------------------------------
(* psadt_fastembed_cloud_fixed.py: create_embeddings_for_commands *)

Prepared(ctx, collection_name, collection_exists, supports_sparse) ==
    [ctx |-> ctx, collection_name |-> collection_name,
     collection_exists |-> collection_exists, supports_sparse |-> supports_sparse]

\* the preparation, had it turned to the alternative collection in sparse
\* mode whatever the primary collection supports
fixed_check_collection_alternative(ctx, use_sparse, f) ==
    LET collection_name == COMMANDS_COLLECTION
        g == get_collection(ctx, collection_name, f)
        p == supports_sparse_vectors(g.ctx, collection_name, f)
    IN  IF g.err # ""
        THEN Prepared(g.ctx, collection_name, FALSE, FALSE)
        ELSE IF ~use_sparse
        THEN Prepared(g.ctx, collection_name, TRUE, FALSE)
        ELSE Prepared(p.ctx, Alternative(collection_name), FALSE, FALSE)

\* "Check if collection exists"
fixed_check_collection(ctx, use_sparse, f) ==
    LET collection_name == COMMANDS_COLLECTION
        g == get_collection(ctx, collection_name, f)
        p == supports_sparse_vectors(g.ctx, collection_name, f)
    IN  IF g.err # ""
        THEN Prepared(g.ctx, collection_name, FALSE, FALSE)
        ELSE IF ~use_sparse
        THEN Prepared(g.ctx, collection_name, TRUE, FALSE)
        ELSE IF p.value
        THEN Prepared(p.ctx, collection_name, TRUE, TRUE)
        ELSE Prepared(p.ctx, Alternative(collection_name), FALSE, FALSE)

\* the configuration create_collection is given, by mode
NewConfig(use_sparse) ==
    IF use_sparse THEN SparseConfig(<<SPARSE_FIELD>>) ELSE DenseConfig

\* the branch condition, had it asked for a collection known to support
\* sparse vectors
fixed_sparse_branch_strict(use_sparse, collection_exists, supports_sparse) ==
    use_sparse /\ supports_sparse

\* "if use_sparse and (not collection_exists or supports_sparse)"
fixed_sparse_branch(use_sparse, collection_exists, supports_sparse) ==
    use_sparse /\ (~collection_exists \/ supports_sparse)

RECURSIVE fixed_upload(_, _, _, _, _, _, _)
fixed_upload(ctx, commands, i, use_sparse, collection_name, sparse_branch, f) ==
    IF i > Len(commands) THEN Out(ctx, ReturnNone)
    ELSE LET command == commands[i]
             point == IF sparse_branch
                      THEN SparsePoint(command.id, Text(command), dummy_vector_len, SPARSE_FIELD)
                      ELSE DensePoint(command.id, Text(command))
             u == upsert(ctx, collection_name, <<point>>, f)
         IN  IF ~command.ok
             THEN Out(ctx, Raise("KeyError"))
             ELSE IF f.emb = i \/ (use_sparse /\ ~sparse_branch) \/ command.id = NoId
             THEN fixed_upload(ctx, commands, i + 1, use_sparse, collection_name,
                               sparse_branch, f)
             ELSE fixed_upload(u.ctx, commands, i + 1, use_sparse, collection_name,
                               sparse_branch, f)

fixed_create_embeddings_for_commands(st, commands, use_sparse, f) ==
    LET ctx == [store |-> st, reqs |-> <<>>]
        prep == fixed_check_collection(ctx, use_sparse, f)
        cr == create_collection(prep.ctx, prep.collection_name, NewConfig(use_sparse), f)
        ready == IF prep.collection_exists THEN prep.ctx ELSE cr.ctx
    IN  IF f.model = Model(use_sparse)
        THEN Out(ctx, Raise("ModelUnavailable"))
        ELSE IF ~prep.collection_exists /\ cr.err # ""
        THEN Out(cr.ctx, Raise(cr.err))
        ELSE fixed_upload(ready, commands, 1, use_sparse, prep.collection_name,
                          fixed_sparse_branch(use_sparse, prep.collection_exists,
                                              prep.supports_sparse), f)

----------------------------------------------------------------------------
(* psadt_fastembed_cloud.py: create_embeddings_for_commands *)

\* the recreation, had it deleted without a successful read
cloud_recreate_blind(ctx, f) ==
    delete_collection(get_collection(ctx, COMMANDS_COLLECTION, f).ctx,
                      COMMANDS_COLLECTION, f).ctx

\* "Check if collection exists and recreate if needed"
cloud_recreate(ctx, f) ==
    LET g == get_collection(ctx, COMMANDS_COLLECTION, f)
        d == delete_collection(g.ctx, COMMANDS_COLLECTION, f)
    IN  IF g.err # "" THEN g.ctx ELSE d.ctx

RECURSIVE cloud_upload(_, _, _, _, _)
cloud_upload(ctx, commands, i, use_sparse, f) ==
    IF i > Len(commands) THEN Out(ctx, ReturnNone)
    ELSE LET command == commands[i]
             point == IF use_sparse
                      THEN SparsePoint(command.id, Text(command), 0, SPARSE_FIELD)
                      ELSE DensePoint(command.id, Text(command))
             u == upsert(ctx, COMMANDS_COLLECTION, <<point>>, f)
         IN  IF ~command.ok
             THEN Out(ctx, Raise("KeyError"))
             ELSE IF f.emb = i
             THEN Out(ctx, Raise("EmbeddingFailed"))
             ELSE IF command.id = NoId
             THEN Out(ctx, Raise("KeyError"))
             ELSE IF u.err # ""
             THEN Out(u.ctx, Raise(u.err))
             ELSE cloud_upload(u.ctx, commands, i + 1, use_sparse, f)

cloud_create_embeddings_for_commands(st, commands, use_sparse, f) ==
    LET ctx == [store |-> st, reqs |-> <<>>]
        cr == create_collection(cloud_recreate(ctx, f), COMMANDS_COLLECTION,
                                NewConfig(use_sparse), f)
    IN  IF f.model = Model(use_sparse)
        THEN Out(ctx, Raise("ModelUnavailable"))
        ELSE IF cr.err # ""
        THEN Out(cr.ctx, Raise(cr.err))
        ELSE cloud_upload(cr.ctx, commands, 1, use_sparse, f)

----------------------------------------------------------------------------
(* use_existing_collection.py: add_to_existing_collection *)

\* "Process commands": the points built, or the exception that ends the loop
RECURSIVE existing_points(_, _, _, _)
existing_points(commands, i, sparse_vector_field, f) ==
    IF i > Len(commands) THEN [err |-> "", points |-> <<>>]
    ELSE LET command == commands[i]
             rest == existing_points(commands, i + 1, sparse_vector_field, f)
         IN  IF ~command.ok THEN [err |-> "KeyError", points |-> <<>>]
             ELSE IF f.emb = i THEN [err |-> "EmbeddingFailed", points |-> <<>>]
             ELSE IF command.id = NoId THEN [err |-> "KeyError", points |-> <<>>]
             ELSE IF rest.err # "" THEN rest
             ELSE [err |-> "",
                   points |-> <<SparsePoint(command.id, Text(command), 0,
                                            sparse_vector_field)>> \o rest.points]

\* the addition, had it created a missing collection instead of exiting
add_to_existing_collection_creating(st, commands, collection_name, f) ==
    LET ctx == [store |-> st, reqs |-> <<>>]
        g == get_collection(ctx, collection_name, f)
        cr == create_collection(g.ctx, collection_name, SparseConfig(<<SPARSE_FIELD>>), f)
        built == existing_points(commands, 1, SPARSE_FIELD, f)
        u == upsert(cr.ctx, collection_name, built.points, f)
    IN  IF f.model = "sparse"
        THEN Out(ctx, Raise("ModelUnavailable"))
        ELSE IF built.err # ""
        THEN Out(cr.ctx, Raise(built.err))
        ELSE IF u.err # ""
        THEN Out(u.ctx, Raise(u.err))
        ELSE Out(u.ctx, ReturnNone)

add_to_existing_collection(st, commands, collection_name, f) ==
    LET ctx == [store |-> st, reqs |-> <<>>]
        g == get_collection(ctx, collection_name, f)
        sparse_vector_field == first_sparse_field(g.info)
        built == existing_points(commands, 1, sparse_vector_field, f)
        u == upsert(g.ctx, collection_name, built.points, f)
    IN  IF f.model = "sparse"
        THEN Out(ctx, Raise("ModelUnavailable"))
        ELSE IF g.err # ""
        THEN Out(g.ctx, Exit("1"))
        ELSE IF sparse_vector_field = ""
        THEN Out(g.ctx, Exit("1"))
        ELSE IF built.err # ""
        THEN Out(g.ctx, Raise(built.err))
        ELSE IF built.points = <<>>
        THEN Out(g.ctx, ReturnNone)
        ELSE IF u.err # ""
        THEN Out(u.ctx, Raise(u.err))
        ELSE Out(u.ctx, ReturnNone)

----------------------------------------------------------------------------
(* scripts/generate_embeddings.py: main *)

Min(a, b) == IF a < b THEN a ELSE b

\* "Generate an ID if not present": item.get('id', i + j)
item_id(item, i, j) == IF item.id = NoId THEN i + j ELSE item.id

\* "Prepare points for Qdrant": batch starts at the zero-based index i
generate_points(batch, i, sparse) ==
    [k \in DOMAIN batch |->
        IF sparse
        THEN SparsePoint(item_id(batch[k], i, k - 1), Text(batch[k]), 0, SPARSE_FIELD)
        ELSE DensePoint(item_id(batch[k], i, k - 1), Text(batch[k]))]

\* "Process items in batches": for i in range(0, len(items), batch_size)
RECURSIVE generate_batches(_, _, _, _, _, _, _)
generate_batches(ctx, items, i, collection, sparse, batch_size, f) ==
    IF i >= Len(items) THEN Out(ctx, ReturnNone)
    ELSE LET batch == SubSeq(items, i + 1, Min(i + batch_size, Len(items)))
             u == upsert(ctx, collection, generate_points(batch, i, sparse), f)
         IN  IF f.emb \in (i + 1)..(i + Len(batch))
             THEN Out(ctx, Raise("EmbeddingFailed"))
             ELSE IF u.err # ""
             THEN Out(u.ctx, Raise(u.err))
             ELSE generate_batches(u.ctx, items, i + batch_size, collection, sparse,
                                   batch_size, f)

generate_main(st, items, collection, sparse, batch_size, f) ==
    LET ctx == [store |-> st, reqs |-> <<>>]
    IN  IF f.model = Model(sparse)
        THEN Out(ctx, Raise("ModelUnavailable"))
        ELSE IF batch_size = 0
        THEN Out(ctx, Raise("ValueError"))
        ELSE IF batch_size < 0
        THEN Out(ctx, ReturnNone)
        ELSE generate_batches(ctx, items, 0, collection, sparse, batch_size, f)

----------------------------------------------------------------------------
(* Inputs of the calls *)

Ids == 1..MaxRecords

\* the k-th record of a list: well formed with id k, with the id of the first
\* record again, without an 'id', or without its text keys
Record(k, kind) ==
    [id |-> IF kind = "noid" THEN NoId ELSE IF kind = "dup" THEN 1 ELSE k,
     ok |-> kind # "nokeys"]

CommandLists ==
    UNION {{[k \in 1..n |-> Record(k, kinds[k])] :
                kinds \in [1..n -> {"good", "dup", "noid", "nokeys"}]} :
           n \in 0..MaxRecords}

Queries == {"close dialog"}

Limits == 1..MaxRecords

\* the order in which the store ranks the points for a query
Rankings == {r \in [Ids -> Ids] : \A a, b \in Ids : r[a] = r[b] => a = b}

BatchSizes == -1..MaxRecords

\* the requests one call can send: probes and create, then one per record
MaxRequests == 3 + MaxRecords

SearchFaults ==
    {NoFault} \cup {[NoFault EXCEPT !.net = k] : k \in 1..3}
              \cup {[NoFault EXCEPT !.model = m] : m \in {"sparse", "dense"}}

IngestFaults ==
    SearchFaults \cup {[NoFault EXCEPT !.net = k] : k \in 1..MaxRequests}
                 \cup {[NoFault EXCEPT !.emb = i] : i \in 1..MaxRecords}

\* generate_embeddings.py sends one request per batch
GenerateFaults == {f \in IngestFaults : f.net <= MaxRecords}

\* the faults of F that can strike a call loading `models` for n records
Striking(F, models, n) == {f \in F : f.model \in models \cup {""} /\ f.emb <= n}

----------------------------------------------------------------------------
(* The states of the store a call can find *)

StoredPoint(id, c) ==
    IF c.sparse = <<>> THEN DensePoint(id, <<"record", id>>)
    ELSE SparsePoint(id, <<"record", id>>, 0, Head(c.sparse))

Filled(c, n) == [c EXCEPT !.points = {StoredPoint(id, c) : id \in 1..n}]

Configs == {DenseConfig, SparseConfig(<<SPARSE_FIELD>>), SparseConfig(<<"bm25">>),
            SparseConfig(<<"bm25", SPARSE_FIELD>>)}

Collections == {Absent} \cup {Filled(c, n) : c \in Configs, n \in {0, MaxRecords}}

AlternativeCollections ==
    {Absent, DenseConfig} \cup {Filled(SparseConfig(<<SPARSE_FIELD>>), n) : n \in {0, MaxRecords}}

Stores == {st \in [Names -> Collections] :
              st[Alternative(COMMANDS_COLLECTION)] \in AlternativeCollections}

----------------------------------------------------------------------------
(* The state machine *)

NoCall == [script |-> "", op |-> "", collection |-> "", use_sparse |-> FALSE,
           query |-> "", limit |-> 0, ranking |-> <<>>, commands |-> <<>>,
           batch_size |-> 0, f |-> NoFault]

NoRet == [kind |-> "", results |-> <<>>, value |-> FALSE, err |-> ""]

Idle == call = NoCall

Init ==
    /\ store \in Stores
    /\ call = NoCall
    /\ reqs = <<>>
    /\ ret = NoRet
    /\ written = FALSE

\* what a call leaves behind: the store, the requests sent and the return
Deliver(out) ==
    /\ store' = out.store
    /\ reqs' = out.reqs
    /\ ret' = out.ret

Probe ==
    /\ Idle
    /\ \E name \in Names, f \in {NoFault, [NoFault EXCEPT !.net = 1]} :
        LET p == supports_sparse_vectors([store |-> store, reqs |-> <<>>], name, f)
        IN  /\ call' = [NoCall EXCEPT !.script = "fixed", !.op = "probe", !.collection = name,
                              !.f = f]
            /\ Deliver(Out(p.ctx, ReturnBool(p.value)))
            /\ UNCHANGED written

FixedSearch ==
    /\ Idle
    /\ \E query \in Queries, use_sparse \in BOOLEAN, limit \in Limits,
       ranking \in Rankings :
       \E f \in Striking(SearchFaults, {Model(use_sparse), "dense"}, 0) :
        /\ call' = [NoCall EXCEPT !.script = "fixed", !.op = "search",
                          !.collection = COMMANDS_COLLECTION, !.use_sparse = use_sparse,
                          !.query = query, !.limit = limit, !.ranking = ranking, !.f = f]
        /\ Deliver(fixed_search_psadt_commands(store, query, use_sparse, limit, ranking, f))
        /\ UNCHANGED written

CloudSearch ==
    /\ Idle
    /\ \E query \in Queries, use_sparse \in BOOLEAN, limit \in Limits,
       ranking \in Rankings :
       \E f \in Striking(SearchFaults, {Model(use_sparse)}, 0) :
        /\ call' = [NoCall EXCEPT !.script = "cloud", !.op = "search",
                          !.collection = COMMANDS_COLLECTION, !.use_sparse = use_sparse,
                          !.query = query, !.limit = limit, !.ranking = ranking, !.f = f]
        /\ Deliver(cloud_search_psadt_commands(store, query, use_sparse, limit, ranking, f))
        /\ UNCHANGED written

ExistingSearch ==
    /\ Idle
    /\ \E query \in Queries, collection \in Names, limit \in Limits,
       ranking \in Rankings :
       \E f \in Striking(SearchFaults, {"sparse"}, 0) :
        /\ call' = [NoCall EXCEPT !.script = "existing", !.op = "search",
                          !.collection = collection, !.use_sparse = TRUE,
                          !.query = query, !.limit = limit, !.ranking = ranking, !.f = f]
        /\ Deliver(search_commands(store, query, collection, limit, ranking, f))
        /\ UNCHANGED written

FixedIngest ==
    /\ Idle /\ ~written
    /\ \E commands \in CommandLists, use_sparse \in BOOLEAN :
       \E f \in Striking(IngestFaults, {Model(use_sparse)}, Len(commands)) :
        /\ call' = [NoCall EXCEPT !.script = "fixed", !.op = "ingest",
                          !.collection = COMMANDS_COLLECTION, !.use_sparse = use_sparse,
                          !.commands = commands, !.f = f]
        /\ Deliver(fixed_create_embeddings_for_commands(store, commands, use_sparse, f))
        /\ written' = TRUE

CloudIngest ==
    /\ Idle /\ ~written
    /\ \E commands \in CommandLists, use_sparse \in BOOLEAN :
       \E f \in Striking(IngestFaults, {Model(use_sparse)}, Len(commands)) :
        /\ call' = [NoCall EXCEPT !.script = "cloud", !.op = "ingest",
                          !.collection = COMMANDS_COLLECTION, !.use_sparse = use_sparse,
                          !.commands = commands, !.f = f]
        /\ Deliver(cloud_create_embeddings_for_commands(store, commands, use_sparse, f))
        /\ written' = TRUE

ExistingAdd ==
    /\ Idle /\ ~written
    /\ \E commands \in CommandLists, collection \in Names :
       \E f \in Striking(IngestFaults, {"sparse"}, Len(commands)) :
        /\ call' = [NoCall EXCEPT !.script = "existing", !.op = "ingest",
                          !.collection = collection, !.use_sparse = TRUE,
                          !.commands = commands, !.f = f]
        /\ Deliver(add_to_existing_collection(store, commands, collection, f))
        /\ written' = TRUE

GenerateMain ==
    /\ Idle /\ ~written
    /\ \E items \in CommandLists, collection \in Names, sparse \in BOOLEAN,
       batch_size \in BatchSizes :
       \E f \in Striking(GenerateFaults, {Model(sparse)}, Len(items)) :
        /\ call' = [NoCall EXCEPT !.script = "generate", !.op = "ingest",
                          !.collection = collection, !.use_sparse = sparse,
                          !.commands = items, !.batch_size = batch_size, !.f = f]
        /\ Deliver(generate_main(store, items, collection, sparse, batch_size, f))
        /\ written' = TRUE

\* the call is over: the process goes on to its next call, the store stays
Finish ==
    /\ ~Idle
    /\ call' = NoCall
    /\ reqs' = <<>>
    /\ ret' = NoRet
    /\ UNCHANGED <<store, written>>

NextSearch == Probe \/ FixedSearch \/ CloudSearch \/ ExistingSearch \/ Finish

NextIngest == FixedIngest \/ CloudIngest \/ ExistingAdd \/ GenerateMain \/ Finish

Next == NextSearch \/ NextIngest

SpecSearch == Init /\ [][NextSearch]_vars

SpecIngest == Init /\ [][NextIngest]_vars

Spec == Init /\ [][Next]_vars

----------------------------------------------------------------------------
(* Vocabulary of the claims *)

IsSearch == call.op = "search"

IsIngest == call.op = "ingest"

Sent(op) == {k \in DOMAIN reqs : reqs[k].op = op}

Mutating == {"create_collection", "delete_collection", "upsert"}

\* a sparse-mode search that sent a dense query: the fallback was taken
FellBack ==
    /\ IsSearch
    /\ call.use_sparse
    /\ \E k \in Sent("search") : reqs[k].vec.via = "dense.embed"

\* what the first request of the call saw of the collection the call names
FoundAbsent ==
    /\ reqs # <<>>
    /\ reqs[1].coll = call.collection
    /\ ~reqs[1].cfg.exists

----------------------------------------------------------------------------
(* C1: every sparse-mode search (search_psadt_commands of the fixed        *)
(* script, search_commands) against an existing collection without a       *)
(* sparse-vector field switches to dense mode: the search request carries  *)
(* the dense embedding of the query, and the call does not return without  *)
(* searching.                                                              *)

C1_SparseSearchFallsBackToDense ==
    ( /\ IsSearch
      /\ call.script \in {"fixed", "existing"}
      /\ call.use_sparse
      /\ call.f = NoFault
      /\ store[call.collection].exists
      /\ store[call.collection].sparse = <<>> )
    => \E k \in Sent("search") : reqs[k].vec = DenseEmbed(QueryText(call.query))

(* C2: the value returned by a search that fell back from sparse to dense  *)
(* carries a fallback indication: it is not the empty result and it is not *)
(* a value that a search honouring sparse mode returns.                    *)

HonouredReturns ==
    {o.ret : o \in {x \in {fixed_search_psadt_commands(st, call.query, TRUE, limit, ranking,
                                                      NoFault) :
                              st \in Stores, limit \in Limits, ranking \in Rankings} :
                       \E k \in DOMAIN x.reqs : /\ x.reqs[k].op = "search"
                                                /\ x.reqs[k].vec.via = "sparse.query_embed"}}

C2_FallbackIsObservable ==
    ( /\ FellBack
      /\ \A k \in Sent("search") : reqs[k].err = "" )
    => /\ ret # ReturnList(<<>>)
       /\ ret \notin HonouredReturns

(* C3: a search call sends no create-collection, delete-collection or      *)
(* upsert request on any path, and leaves every collection, configuration  *)
(* and stored point as it was.                                             *)

C3_SearchLeavesStoreUnchanged ==
    [][call'.op = "search" =>
          /\ store' = store
          /\ \A k \in DOMAIN reqs' : reqs'[k].op \notin Mutating]_vars

\* a sparse-mode search probed both collections, fell back and returned hits
C3_Witness ==
    /\ FellBack
    /\ Cardinality(Sent("get_collection")) = 2
    /\ ret.results # <<>>

(* C4: the capability probe of a collection that does not exist, or whose  *)
(* configuration cannot be retrieved, surfaces the failure as an error; it *)
(* never answers supportsSparse = false.                                   *)

C4_ProbeSurfacesFailure ==
    ( /\ call.op = "probe"
      /\ \E k \in Sent("get_collection") : reqs[k].err # "" )
    => ret.kind = "raise"

(* C5: a search against a collection name that is not in the store fails   *)
(* with CollectionNotFound, in sparse and in dense mode; it never returns  *)
(* a result list.                                                          *)

C5_SearchOfMissingCollectionFails ==
    ( /\ IsSearch
      /\ call.script \in {"fixed", "existing"}
      /\ call.f = NoFault
      /\ ~store[call.collection].exists )
    => /\ ret.kind = "raise"
       /\ ret.err = "CollectionNotFound"

(* C6: ingestion never sends an upsert whose vector kind the target        *)
(* collection is not configured for: a dense vector goes only into a       *)
(* collection of dense size 384, a sparse vector only into a collection    *)
(* with a sparse-vector field.                                             *)

KindFits(vec, cfg) ==
    /\ vec.via = "dense.embed" => cfg.exists /\ cfg.size = vector_size
    /\ vec.via = "sparse.embed" => cfg.exists /\ cfg.sparse # <<>>

C6_UpsertsFitTheCollection ==
    IsIngest =>
        \A k \in Sent("upsert") : \A j \in DOMAIN reqs[k].points :
            KindFits(reqs[k].points[j].vec, reqs[k].cfg)

(* C7: every point upserted in sparse mode names a sparse-vector field     *)
(* that the target collection's configuration exposes when the upsert is   *)
(* sent.                                                                   *)

C7_SparseFieldIsExposed ==
    IsIngest =>
        \A k \in Sent("upsert") : \A j \in DOMAIN reqs[k].points :
            reqs[k].points[j].vec.field # ""
                => reqs[k].points[j].vec.field \in Range(reqs[k].cfg.sparse)

(* C8: ingestion into a collection name absent from the store creates the  *)
(* collection, with the configuration of the requested mode, before the    *)
(* first upsert; afterwards the collection exists and holds one point per  *)
(* input record.                                                           *)

WellFormed(commands) ==
    /\ \A i \in DOMAIN commands : commands[i].ok /\ commands[i].id # NoId
    /\ \A i, j \in DOMAIN commands : commands[i].id = commands[j].id => i = j

C8_AbsentCollectionIsCreated ==
    ( /\ IsIngest
      /\ call.script \in {"fixed", "generate"}
      /\ call.f = NoFault
      /\ call.script = "generate" => call.batch_size > 0
      /\ WellFormed(call.commands)
      /\ FoundAbsent )
    => /\ \E k \in Sent("create_collection") :
            /\ reqs[k].coll = call.collection
            /\ reqs[k].create = NewConfig(call.use_sparse)
            /\ \A u \in Sent("upsert") : k < u
       /\ store[call.collection].exists
       /\ Cardinality(store[call.collection].points) = Len(call.commands)

(* C9: a failure on one record of an ingestion (a missing text field, an   *)
(* embedding failure, an upsert failure) does not abort the batch: every   *)
(* other record is still rendered, embedded and upserted.                  *)

PreparationFailed ==
    \/ call.f.model # ""
    \/ \E k \in Sent("create_collection") : reqs[k].err # ""

Upserted(command) ==
    \E k \in Sent("upsert") : \E j \in DOMAIN reqs[k].points :
        /\ reqs[k].points[j].id = command.id
        /\ reqs[k].points[j].vec.text = Text(command)

C9_RecordFailureDoesNotAbort ==
    ( /\ IsIngest
      /\ call.script \in {"fixed", "generate"}
      /\ call.script = "generate" => call.batch_size > 0
      /\ ~PreparationFailed )
    => \A i \in DOMAIN call.commands :
          ( /\ call.commands[i].ok
            /\ call.commands[i].id # NoId
            /\ call.f.emb # i )
          => Upserted(call.commands[i])

(* C10: ingestion returns a report whose count of upserted points plus     *)
(* count of per-record failures is the number of input records.            *)

C10_ReportAddsUp ==
    ( /\ IsIngest
      /\ call.script \in {"fixed", "cloud"}
      /\ ret.kind # "raise" )
    => /\ {"success", "failed"} \subseteq DOMAIN ret
       /\ ret.success = Cardinality({k \in Sent("upsert") : reqs[k].err = ""})
       /\ ret.success + ret.failed = Len(call.commands)

(* C11: when the embedding model cannot be loaded, or the first read of   *)
(* the collection fails in the network (not because the collection is      *)
(* absent), create_embeddings_for_commands ends with an error and has sent *)
(* no create-collection, delete-collection or upsert request.              *)

C11_PreparationFailureAbortsBeforeWrites ==
    ( /\ IsIngest
      /\ call.script \in {"fixed", "cloud"}
      /\ \/ call.f.model # ""
         \/ \E k \in Sent("get_collection") : reqs[k].err = "StoreUnavailable" )
    => /\ ret.kind = "raise"
       /\ \A k \in DOMAIN reqs : reqs[k].op \notin Mutating

(* C12: in sparse mode every upserted point carries a vector produced by   *)
(* the corpus entry point (embed) and every sparse search request carries  *)
(* a vector produced by the query entry point (query_embed); no ingestion  *)
(* sends a query_embed vector, no search sends a sparse embed vector.      *)

C12_EntryPointsMatchTheirUse ==
    /\ IsIngest =>
          \A k \in Sent("upsert") : \A j \in DOMAIN reqs[k].points :
              /\ reqs[k].points[j].vec.via # "sparse.query_embed"
              /\ call.use_sparse => reqs[k].points[j].vec.via = "sparse.embed"
    /\ IsSearch =>
          \A k \in Sent("search") :
              /\ reqs[k].vec.via # "sparse.embed"
              /\ reqs[k].vec.field # "" => reqs[k].vec.via = "sparse.query_embed"

\* after an ingestion, a sparse search sent a query_embed vector and got hits
\* that the corpus entry point had embedded
C12_Witness ==
    /\ written
    /\ IsSearch
    /\ \E k \in Sent("search") :
          /\ reqs[k].vec.via = "sparse.query_embed"
          /\ \E p \in store[reqs[k].coll].points : p.vec.via = "sparse.embed"
    /\ ret.results # <<>>

(* C13: a search call one of whose store requests (the search or a probe   *)
(* before it) fails in the network ends with an error; it does not return  *)
(* a result list.                                                          *)

C13_FailedSearchRaises ==
    ( /\ IsSearch
      /\ \E k \in DOMAIN reqs : reqs[k].err = "StoreUnavailable" )
    => ret.kind = "raise"

(* C14: one search call sends at most one similarity-search request, on    *)
(* every path, and never sends a failed request a second time.             *)

C14_NoRetry ==
    IsSearch =>
        /\ Cardinality(Sent("search")) <= 1
        /\ \A j, k \in DOMAIN reqs :
              (j < k /\ reqs[j].err # "")
                  => ~(reqs[k].op = reqs[j].op /\ reqs[k].coll = reqs[j].coll)

\* the search request of a sparse search that probed both collections failed
\* in the network
C14_Witness ==
    /\ IsSearch
    /\ Len(reqs) = 3
    /\ reqs[3].op = "search"
    /\ reqs[3].err = "StoreUnavailable"

(* C15: every point sent in an upsert carries exactly one vector           *)
(* representation: a dense vector or a sparse vector under a field name,   *)
(* never both and never neither.                                           *)

C15_OneVectorPerPoint ==
    IsIngest =>
        \A k \in Sent("upsert") : \A j \in DOMAIN reqs[k].points :
            (reqs[k].points[j].vec.dense # 0) # (reqs[k].points[j].vec.field # "")

(* C16: when the configuration read by use_existing_collection.py exposes  *)
(* sparse-vector fields, the call goes on in sparse mode with the first    *)
(* field name of the configuration: the points add_to_existing_collection  *)
(* upserts and the query search_commands sends both name that field.       *)

C16_FirstSparseFieldIsUsed ==
    ( /\ call.script = "existing"
      /\ reqs # <<>>
      /\ reqs[1].err = ""
      /\ reqs[1].cfg.sparse # <<>> )
    => /\ \A k \in Sent("upsert") : \A j \in DOMAIN reqs[k].points :
              reqs[k].points[j].vec.field = Head(reqs[1].cfg.sparse)
       /\ \A k \in Sent("search") : reqs[k].vec.field = Head(reqs[1].cfg.sparse)
       /\ ret.kind # "exit"
       /\ (IsSearch /\ call.f = NoFault) => Sent("search") # {}
       /\ (IsIngest /\ call.f = NoFault /\ call.commands # <<>>
                    /\ WellFormed(call.commands)) => Sent("upsert") # {}

\* search_commands searched a collection with two sparse fields and got hits
C16_Witness ==
    /\ call.script = "existing"
    /\ IsSearch
    /\ Len(store[call.collection].sparse) = 2
    /\ \E k \in Sent("search") : reqs[k].vec.field = "bm25"
    /\ ret.results # <<>>

(* C17: one capability probe sends exactly one get-collection request and  *)
(* nothing else, and leaves the store as it was, whether the collection    *)
(* exists or not.                                                          *)

C17_ProbeReadsOnce ==
    [][call'.op = "probe" =>
          /\ store' = store
          /\ Len(reqs') = 1
          /\ reqs'[1].op = "get_collection"
          /\ reqs'[1].coll = call'.collection]_vars

\* the probe of a collection that does not exist
C17_Witness ==
    /\ call.op = "probe"
    /\ ~store[call.collection].exists
    /\ reqs[1].err = "CollectionNotFound"
    /\ ret = ReturnBool(FALSE)

(* C18: the mode decision of a sparse-mode call follows the configuration  *)
(* the store holds when the call is made, whatever earlier calls saw: the  *)
(* collection and vector kind of a search, the field name, the target of   *)
(* an ingestion.                                                           *)

\* the collection a sparse-mode call of the fixed script works on in store st
LiveTarget(st) ==
    IF st[COMMANDS_COLLECTION].sparse # <<>> THEN COMMANDS_COLLECTION
    ELSE IF st[Alternative(COMMANDS_COLLECTION)].sparse # <<>>
    THEN Alternative(COMMANDS_COLLECTION)
    ELSE ""

LiveDecision(st, c, r) ==
    /\ (c.script = "fixed" /\ c.op = "search") =>
          \E k \in DOMAIN r :
              /\ r[k].op = "search"
              /\ IF LiveTarget(st) # ""
                 THEN r[k].coll = LiveTarget(st) /\ r[k].vec.via = "sparse.query_embed"
                 ELSE r[k].coll = COMMANDS_COLLECTION /\ r[k].vec.via = "dense.embed"
    /\ (c.script = "fixed" /\ c.op = "ingest") =>
          \A k \in DOMAIN r :
              r[k].op \in {"create_collection", "upsert"} =>
                  r[k].coll = IF st[COMMANDS_COLLECTION].exists
                                 /\ st[COMMANDS_COLLECTION].sparse = <<>>
                              THEN Alternative(COMMANDS_COLLECTION)
                              ELSE COMMANDS_COLLECTION
    /\ (c.script = "existing" /\ c.op = "search" /\ st[c.collection].exists) =>
          IF st[c.collection].sparse = <<>>
          THEN \A k \in DOMAIN r : r[k].op # "search"
          ELSE \E k \in DOMAIN r : /\ r[k].op = "search"
                                   /\ r[k].vec.field = Head(st[c.collection].sparse)
    /\ (c.script = "existing" /\ c.op = "ingest") =>
          \A k \in DOMAIN r : \A j \in DOMAIN r[k].points :
              r[k].points[j].vec.field = Head(st[c.collection].sparse)

StoreAnswer(c, limit, ranking) ==
    LET ranked == SelectSeq(ranking, LAMBDA i : \E p \in c.points : p.id = i)
    IN  [k \in 1..Min(limit, Len(ranked)) |->
            [payload |-> ranked[k], score |-> Len(ranking) + 1 - k]]

C19_ResultsFollowTheStore ==
    IsSearch =>
        \A k \in Sent("search") :
            /\ reqs[k].limit = call.limit
            /\ (reqs[k].err = "" /\ ret.kind = "list") =>
                  /\ ret.results = StoreAnswer(store[reqs[k].coll], call.limit, call.ranking)
                  /\ Len(ret.results) <= call.limit

\* of two stored points the search with limit 1 returned the one the store
\* ranks first, which is not the one with the smallest id
C19_Witness ==
    /\ IsSearch
    /\ call.limit = 1
    /\ \E k \in Sent("search") : Cardinality(store[reqs[k].coll].points) >= 2
    /\ Len(ret.results) = 1
    /\ ret.results[1].payload = 2

----------------------------------------------------------------------------
(* scripts/generate_embeddings.py: create_text_representation.  An item is *)
(* a mapping that keeps the order in which its keys were inserted: the     *)
(* sequence of its fields.  A value is described by its type, by the text  *)
(* that formatting it gives (scalars) and by its entries (lists).          *)

Scalar(k, type, text) == [k |-> k, type |-> type, text |-> text, list |-> <<>>]

List(k, entries) == [k |-> k, type |-> "list", text |-> "", list |-> entries]

\* 'key' in item
Has(item, key) == \E i \in DOMAIN item : item[i].k = key

\* item[key]
Get(item, key) == item[CHOOSE i \in DOMAIN item : item[i].k = key]

\* "- {name}: {description}\n" for every entry, in the order of the list
RECURSIVE Entries(_)
Entries(list) ==
    IF list = <<>> THEN ""
    ELSE "- " \o Head(list).a \o ": " \o Head(list).b \o "\n" \o Entries(Tail(list))

\* the section of a list-valued key: nothing when absent or empty
Section(item, key, heading) ==
    IF Has(item, key) /\ Get(item, key).list # <<>>
    THEN heading \o Entries(Get(item, key).list)
    ELSE ""

\* "\n".join of "k: v" over the str, int, float and bool fields, in the
\* order of item.items()
RECURSIVE GenericLines(_)
GenericLines(fields) ==
    IF fields = <<>> THEN ""
    ELSE IF Len(fields) = 1 THEN Head(fields).k \o ": " \o Head(fields).text
    ELSE Head(fields).k \o ": " \o Head(fields).text \o "\n" \o GenericLines(Tail(fields))

create_text_representation(item) ==
    IF Has(item, "name") /\ Has(item, "synopsis")
    THEN Get(item, "name").text \o ": " \o Get(item, "synopsis").text \o "\n"
         \o (IF Has(item, "syntax") THEN Get(item, "syntax").text \o "\n" ELSE "")
         \o Section(item, "parameters", "Parameters:\n")
         \o Section(item, "examples", "Examples:\n")
    ELSE IF Has(item, "title") /\ Has(item, "content")
    THEN Get(item, "title").text \o "\n" \o Get(item, "content").text
    ELSE GenericLines(SelectSeq(item, LAMBDA fld :
                                   fld.type \in {"str", "int", "float", "bool"}))

\* the values a key takes in the items considered
FieldValues ==
    {Scalar("name", "str", "Show-Dialog"), Scalar("synopsis", "str", "Shows a dialog"),
     Scalar("syntax", "str", "Show-Dialog -Title"),
     List("parameters", <<>>),
     List("parameters", <<[a |-> "Title", b |-> "The title"]>>),
     List("examples", <<[a |-> "Basic", b |-> "Show-Dialog"]>>),
     Scalar("title", "str", "Intro"), Scalar("content", "str", "Body"),
     Scalar("id", "int", "7"), Scalar("notes", "NoneType", "None")}

\* mappings of at most MaxFields keys, in every insertion order
Items ==
    UNION {{item \in [1..n -> FieldValues] :
                \A i, j \in 1..n : item[i].k = item[j].k => i = j} :
           n \in 0..MaxFields}

InitRender ==
    /\ store = [n \in Names |-> Absent]
    /\ call = NoCall
    /\ reqs = <<>>
    /\ ret = NoRet
    /\ written = FALSE

Render ==
    /\ Idle
    /\ \E item \in Items :
        /\ call' = [script |-> "generate", op |-> "render", item |-> item]
        /\ ret' = [kind |-> "str", text |-> create_text_representation(item)]
        /\ UNCHANGED <<store, reqs, written>>

NextRender == Render \/ Finish

SpecRender == InitRender /\ [][NextRender]_vars

\* the same keys with the same values
SameFields(a, b) == Range(a) = Range(b)

(* C20: create_text_representation returns the same string for any two     *)
(* items with the same field names and values, in whatever order the       *)
(* fields were inserted, and whatever was rendered before.                 *)

C20_RenderingIgnoresFieldOrder ==
    call.op = "render" =>
        \A other \in Items :
            SameFields(other, call.item) => create_text_representation(other) = ret.text

(* C21: generate_embeddings.py ends with exit code 0 (main returns) only   *)
(* when every input item was embedded and upserted, and with a non-zero    *)
(* exit code (an uncaught exception) without any upsert when the model     *)
(* cannot be loaded.                                                       *)

\* the number of points of the upsert requests of r that the store accepted
RECURSIVE PointsUpserted(_)
PointsUpserted(r) ==
    IF r = <<>> THEN 0
    ELSE (IF Head(r).op = "upsert" /\ Head(r).err = "" THEN Len(Head(r).points) ELSE 0)
         + PointsUpserted(Tail(r))

C21_ExitCodeTellsSuccess ==
    ( /\ IsIngest
      /\ call.script = "generate" )
    => /\ ret.kind = "None" => PointsUpserted(reqs) = Len(call.commands)
       /\ call.f.model # "" => ret.kind = "raise" /\ Sent("upsert") = {}

(* C22: add_to_existing_collection and search_commands send only           *)
(* get-collection, upsert and search requests and leave every collection's *)
(* existence and configuration as they were; add_to_existing_collection    *)
(* exits with status 1 after its first request, before embedding or        *)
(* upserting, when the collection is missing, cannot be read or has no     *)
(* sparse-vector field.                                                    *)

C22_ExistingNeverCreatesOrDeletes ==
    [][call'.script = "existing" =>
          /\ \A k \in DOMAIN reqs' : reqs'[k].op \in {"get_collection", "upsert", "search"}
          /\ \A n \in Names : Config(store'[n]) = Config(store[n])
          /\ ( /\ call'.op = "ingest"
               /\ reqs' # <<>>
               /\ reqs'[1].err # "" \/ reqs'[1].cfg.sparse = <<>> )
             => /\ ret' = Exit("1")
                /\ Len(reqs') = 1
                /\ store' = store]_vars

\* add_to_existing_collection left a dense-only collection alone, though the
\* embedding of its first record would have failed
C22_Witness ==
    /\ call.script = "existing"
    /\ IsIngest
    /\ call.f.emb = 1
    /\ reqs[1].cfg.exists
    /\ reqs[1].cfg.sparse = <<>>
    /\ ret = Exit("1")

(* C23: for every input list and every --batch-size, generate_embeddings.py*)
(* sends the batches one after the other in input order, every upsert      *)
(* carries between 1 and batch-size points, every item is in exactly one   *)
(* upsert, and main comes to its final message only when all N points have *)
(* been upserted.                                                          *)

\* the texts of the points of the upsert requests of r, in the order sent
RECURSIVE TextsSent(_)
TextsSent(r) ==
    IF r = <<>> THEN <<>>
    ELSE (IF Head(r).op = "upsert"
          THEN [j \in DOMAIN Head(r).points |-> Head(r).points[j].vec.text]
          ELSE <<>>) \o TextsSent(Tail(r))

C23_BatchesCoverTheInput ==
    ( /\ IsIngest
      /\ call.script = "generate"
      /\ call.f = NoFault
      /\ store[call.collection].exists )
    => /\ \A k \in Sent("upsert") :
              /\ 1 <= Len(reqs[k].points)
              /\ Len(reqs[k].points) <= call.batch_size
       /\ ret.kind = "None" =>
              TextsSent(reqs) = [i \in DOMAIN call.commands |-> Text(call.commands[i])]

(* C24: a sparse-mode search of the fixed script whose primary collection  *)
(* lacks sparse support while '<name>_new' supports it is run in sparse    *)
(* mode against '<name>_new', without dense fallback; the dense fallback,  *)
(* against the primary collection, is taken only when neither collection   *)
(* supports sparse vectors.  What a probe that failed answers is "no       *)
(* support"; without failures the answers are the store's configuration.   *)

\* the k-th request of the call read a configuration with sparse fields
Supports(k) ==
    /\ k \in Sent("get_collection")
    /\ reqs[k].err = ""
    /\ reqs[k].cfg.sparse # <<>>

CloudPoint(command, use_sparse) ==
    IF use_sparse THEN SparsePoint(command.id, Text(command), 0, SPARSE_FIELD)
    ELSE DensePoint(command.id, Text(command))

----------------------------------------------------------------------------
(* use_existing_collection.py: main.  The menu is shown while call.op is   *)
(* "menu"; a choice runs to its end in one step; the process is over when  *)
(* ret is an exit or an exception that nothing caught.                     *)

default_limit == 3

\* get_psadt_commands_from_db(): the example commands, ids 1, 2, ...
DbCommands == [k \in 1..MaxRecords |-> Record(k, "good")]

Menu(collection_name) ==
    [NoCall EXCEPT !.script = "existing", !.op = "menu", !.collection = collection_name]

InitMenu ==
    /\ store \in Stores
    /\ call \in {Menu(name) : name \in Names}
    /\ reqs = <<>>
    /\ ret = NoRet
    /\ written = FALSE

\* choice == "1"
MenuAdd ==
    /\ call.op = "menu"
    /\ \E f \in Striking(IngestFaults, {"sparse"}, Len(DbCommands)) :
        /\ call' = [call EXCEPT !.op = "ingest", !.use_sparse = TRUE,
                                !.commands = DbCommands, !.f = f]
        /\ Deliver(add_to_existing_collection(store, DbCommands, call.collection, f))
        /\ written' = TRUE

\* choice == "2"
MenuSearch ==
    /\ call.op = "menu"
    /\ \E query \in Queries, ranking \in Rankings :
       \E f \in Striking(SearchFaults, {"sparse"}, 0) :
        /\ call' = [call EXCEPT !.op = "search", !.use_sparse = TRUE, !.query = query,
                                !.limit = default_limit, !.ranking = ranking, !.f = f]
        /\ Deliver(search_commands(store, query, call.collection, default_limit, ranking, f))
        /\ UNCHANGED written

\* choice == "3": break, return 0
MenuExit ==
    /\ call.op = "menu"
    /\ call' = [call EXCEPT !.op = "exited"]
    /\ reqs' = <<>>
    /\ ret' = Exit("0")
    /\ UNCHANGED <<store, written>>

\* any other input: "Invalid choice, please try again."
MenuInvalid ==
    /\ call.op = "menu"
    /\ call' = [call EXCEPT !.op = "invalid"]
    /\ reqs' = <<>>
    /\ ret' = NoRet
    /\ UNCHANGED <<store, written>>

\* while True: the options are printed again
MenuAgain ==
    /\ call.op \in {"ingest", "search", "invalid"}
    /\ ret.kind \notin {"exit", "raise"}
    /\ call' = Menu(call.collection)
    /\ reqs' = <<>>
    /\ ret' = NoRet
    /\ UNCHANGED <<store, written>>

NextMenu == MenuAdd \/ MenuSearch \/ MenuExit \/ MenuInvalid \/ MenuAgain

SpecMenu == InitMenu /\ [][NextMenu]_vars

(* C26: the menu loop of use_existing_collection.py ends only with choice  *)
(* '3' (exit code 0) or with the status-1 exit inside                      *)
(* add_to_existing_collection; choices '1' and '2' make one add or one     *)
(* search and show the menu again, other input shows the menu again        *)
(* without a request to the store.                                         *)

C26_MenuEndsOnlyOnExit ==
    ( /\ call.script = "existing"
      /\ call.f = NoFault )
    => /\ ret.kind \in {"exit", "raise"} =>
              \/ call.op = "exited" /\ ret = Exit("0")
              \/ call.op = "ingest" /\ ret = Exit("1")
       /\ call.op = "invalid" => reqs = <<>>
       /\ call.op = "search" => Cardinality(Sent("search")) <= 1
       /\ call.op = "ingest" => Cardinality(Sent("upsert")) <= 1

(* C27: in create_embeddings_for_commands of the fixed script the point    *)
(* upserted is of the kind of the model loaded: with use_sparse every      *)
(* record takes the sparse branch, whatever the collection was (absent,    *)
(* dense-only, sparse-capable), so no record is lost in the dense branch;  *)
(* without use_sparse every record takes the dense branch.                 *)

C27_BranchMatchesTheModel ==
    ( /\ IsIngest
      /\ call.script = "fixed" )
    => /\ \A k \in Sent("upsert") : \A j \in DOMAIN reqs[k].points :
              /\ (reqs[k].points[j].vec.via = "sparse.embed") = call.use_sparse
              /\ (reqs[k].points[j].vec.field = SPARSE_FIELD) = call.use_sparse
              /\ (reqs[k].points[j].vec.via = "dense.embed") = ~call.use_sparse
       /\ ret.kind = "None" =>
              \A i \in DOMAIN call.commands :
                  (call.commands[i].id # NoId /\ call.f.emb # i)
                      => Upserted(call.commands[i])

\* a sparse run found the primary collection dense-only and upserted sparse
\* points into the alternative collection
C27_Witness ==
    /\ IsIngest
    /\ call.script = "fixed"
    /\ call.use_sparse
    /\ reqs # <<>>
    /\ reqs[1].cfg.exists
    /\ reqs[1].cfg.sparse = <<>>
    /\ \E k \in Sent("upsert") :
          /\ reqs[k].coll = Alternative(COMMANDS_COLLECTION)
          /\ reqs[k].err = ""
          /\ reqs[k].points[1].vec.field = SPARSE_FIELD
    /\ ret.kind = "None"

(* C28: create_embeddings_for_commands of the fixed script sends           *)
(* create-collection only for a name that is not in the store at that      *)
(* moment, whatever the store holds before the run.                        *)

C28_CreatesOnlyWhatIsAbsent ==
    ( /\ IsIngest
      /\ call.script = "fixed"
      /\ call.f = NoFault )
    => \A k \in Sent("create_collection") : ~reqs[k].cfg.exists

----------------------------------------------------------------------------
(* psadt_fastembed_cloud_fixed.py: main.  The example workflow creates the *)
(* embeddings in sparse mode and then searches in sparse mode; an          *)
(* exception of either call ends it with return 1.                         *)

\* "2. Create embeddings (sparse BM25 by default)"
RunCreate ==
    /\ Idle /\ ~written
    /\ \E commands \in CommandLists :
       \E f \in Striking(IngestFaults, {"sparse"}, Len(commands)) :
        /\ call' = [NoCall EXCEPT !.script = "fixed", !.op = "ingest",
                          !.collection = COMMANDS_COLLECTION, !.use_sparse = TRUE,
                          !.commands = commands, !.f = f]
        /\ Deliver(fixed_create_embeddings_for_commands(store, commands, TRUE, f))
        /\ written' = TRUE

\* "3. Demo search"
RunSearch ==
    /\ call.op = "ingest"
    /\ ret.kind = "None"
    /\ \E query \in Queries, limit \in Limits, ranking \in Rankings :
       \E f \in Striking(SearchFaults, {"sparse", "dense"}, 0) :
        /\ call' = [NoCall EXCEPT !.script = "fixed", !.op = "search",
                          !.collection = COMMANDS_COLLECTION, !.use_sparse = TRUE,
                          !.query = query, !.limit = limit, !.ranking = ranking, !.f = f]
        /\ Deliver(fixed_search_psadt_commands(store, query, TRUE, limit, ranking, f))
        /\ UNCHANGED written

\* "return 0", or "return 1" from the except clause
RunReturn ==
    /\ \/ call.op = "search"
       \/ call.op = "ingest" /\ ret.kind = "raise"
    /\ call' = [NoCall EXCEPT !.script = "fixed", !.op = "return"]
    /\ reqs' = <<>>
    /\ ret' = Exit(IF ret.kind = "raise" THEN "1" ELSE "0")
    /\ UNCHANGED <<store, written>>

NextRun == RunCreate \/ RunSearch \/ RunReturn

SpecRun == Init /\ [][NextRun]_vars

(* C29: for every state the store is in before, a sparse-mode              *)
(* search_psadt_commands that runs after a sparse-mode                     *)
(* create_embeddings_for_commands that returned sends its search to the    *)
(* collection into which the ingestion upserted its points (no request of  *)
(* either call failing in the network, models loaded).                     *)

RECURSIVE IdsSent(_)
IdsSent(r) ==
    IF r = <<>> THEN <<>>
    ELSE (IF Head(r).op = "upsert"
          THEN [j \in DOMAIN Head(r).points |-> Head(r).points[j].id]
          ELSE <<>>) \o IdsSent(Tail(r))

\* the ids the input gives are different from one another
GivenIdsDiffer(items) ==
    \A i, j \in DOMAIN items :
        (items[i].id # NoId /\ items[i].id = items[j].id) => i = j

C30_GeneratedIdsAreDistinct ==
    ( /\ IsIngest
      /\ call.script = "generate"
      /\ call.batch_size > 0
      /\ GivenIdsDiffer(call.commands) )
    => /\ \A i \in DOMAIN IdsSent(reqs) :
              call.commands[i].id = NoId => IdsSent(reqs)[i] = i - 1
       /\ \A i, j \in DOMAIN IdsSent(reqs) :
              IdsSent(reqs)[i] = IdsSent(reqs)[j] => i = j

====
